---- MODULE Spec2Model ----
(***************************************************************************)
(* Model of native-ingester's native writer (package native), the batched  *)
(* message processor (package consumer) and the publication event body     *)
(* enrichment (package queue).                                             *)
(*                                                                         *)
(* Go strings are TLA+ strings, except the host header, which is a         *)
(* sequence of one-character strings so that strings.TrimSpace can be      *)
(* computed.  A Go map[string]string is a function on a set of strings;    *)
(* the nil and the empty map are both the function with empty domain.      *)
(***************************************************************************)
EXTENDS Integers, Sequences, FiniteSets, TLC

\* ------------------------------------------------------------------------
\* Bounds of the model
\* ------------------------------------------------------------------------
MaxHostLen == 1   \* longest configured host header, in characters
MaxMembers == 2   \* most members of a JSON object text
MaxOpen == 1      \* most response bodies left open before the model stops
MaxBatch == 2     \* most messages in one batch

\* ------------------------------------------------------------------------
\* Values
\* ------------------------------------------------------------------------
\* A Go error: its text and, when it was formatted from a status code, the code.
Err(text) == [msg |-> text, code |-> 0]
Errorf(text, v) == [msg |-> text, code |-> v]
NoError == Err("nil")

nativeHashHeader == "X-Native-Hash"
transactionIDHeader == "X-Request-Id"
contentTypeHeader == "Content-Type"
timestampHeader == "Message-Timestamp"
originSystemIDHeader == "Origin-System-Id"

address == "http://native-rw"
GTGPath == "/__gtg"
StatusOK == 200

ErrCollectionNotFound == Err("Collection not found")
ErrNon2XX == Err("Native writer returned non-200 code")
ErrRefused == Err("dial tcp: connection refused")
ErrTimeout == Err("net/http: request canceled (Client.Timeout exceeded)")
ErrParser == Err("Content is missing uuid")
ErrParserEmpty == Err("Content uuid is empty")
ErrSyntax == Err("invalid character 'I' looking for beginning of value")
ErrUnmarshalType == Err("json: cannot unmarshal array into Go value of type map[string]interface {}")
ErrNoTimestamp == Err("Publish event does not contain timestamp")

EmptyMap == <<>>

\* The characters a host header is made of: a blank and a letter.
HostChars == {" ", "h"}

RECURSIVE SeqsUpTo(_, _)
SeqsUpTo(S, n) ==
    IF n = 0 THEN {<<>>}
    ELSE LET shorter == SeqsUpTo(S, n - 1)
         IN  shorter \cup {Append(s, x) : s \in {t \in shorter : Len(t) = n - 1}, x \in S}

HostHeaders == SeqsUpTo(HostChars, MaxHostLen)

OriginIDs == {"", "methode", "wordpress"}
CollectionNames == {"", "content"}
Mappings == UNION {[ks -> CollectionNames] : ks \in SUBSET {"", "methode"}}

TransactionIDs == {"tid_test", "tid_2"}
Timestamps == {"2017-02-16T12:56:16Z"}
Hashes == {"hash_1", ""}
ContentUUIDs == {"abc-123"}

\* The status codes the native store answers with.
Statuses == {199, 200, 299, 300, 503}

\* What httpClient.Do gives back: an error, or a response with a status whose
\* body can (copyOk) or cannot be read to its end.
NetOutcomes ==
    [kind : {"error"}, err : {ErrRefused, ErrTimeout}, status : {0}, copyOk : {FALSE}]
    \cup [kind : {"response"}, err : {NoError}, status : Statuses, copyOk : BOOLEAN]

\* What the injected ContentBodyParser gives back for a body.
ParserOutcomes ==
    [uuid : ContentUUIDs, err : {NoError}] \cup [uuid : {""}, err : {ErrParser, ErrParserEmpty}]

\* ------------------------------------------------------------------------
\* JSON texts and encoding/json
\* ------------------------------------------------------------------------
\* A JSON text is an object (its members in the order written, duplicate
\* keys allowed), the literal null, an array, or not JSON at all.
Members ==
    {<<"foo", "bar">>, <<"lastModified", "old">>, <<"publishReference", "old">>,
     <<"foo", "baz">>}

RawBodies ==
    [kind : {"object"}, members : SeqsUpTo(Members, MaxMembers)]
    \cup [kind : {"null", "array", "garbage"}, members : {<<>>}]

Keys(members) == {members[i][1] : i \in 1..Len(members)}

LastIndex(members, k) ==
    CHOOSE i \in 1..Len(members) :
        /\ members[i][1] = k
        /\ \A j \in (i + 1)..Len(members) : members[j][1] # k

\* json.Unmarshal([]byte(text), &body) into a map made empty beforehand.
Unmarshal(raw) ==
    CASE raw.kind = "garbage" -> [body |-> EmptyMap, err |-> ErrSyntax]
      [] raw.kind = "array"   -> [body |-> EmptyMap, err |-> ErrUnmarshalType]
      [] raw.kind = "null"    -> [body |-> EmptyMap, err |-> NoError]
      [] OTHER ->
            [body |-> [k \in Keys(raw.members) |->
                          raw.members[LastIndex(raw.members, k)][2]],
             err |-> NoError]

\* The order json.Marshal writes the keys of a map in (sorted).
KeyOrder == <<"foo", "lastModified", "publishReference">>

\* json.Marshal(msg.body) of a map of strings: the members sorted by key.
Marshal(body) ==
    LET ks == SelectSeq(KeyOrder, LAMBDA k : k \in DOMAIN body)
    IN  [i \in 1..Len(ks) |-> <<ks[i], body[ks[i]]>>]

\* m[k] = v on a Go map.
MapSet(m, k, v) == [x \in DOMAIN m \cup {k} |-> IF x = k THEN v ELSE m[x]]

\* m[k] on a Go map of strings: the zero value when k is no key.
MapGet(m, k) == IF k \in DOMAIN m THEN m[k] ELSE ""

\* ------------------------------------------------------------------------
\* package native: the writer
\* ------------------------------------------------------------------------
IsSpace(c) == c = " "

RECURSIVE TrimLeft(_)
TrimLeft(s) ==
    IF s # <<>> /\ IsSpace(Head(s)) THEN TrimLeft(Tail(s)) ELSE s

RECURSIVE TrimRight(_)
TrimRight(s) ==
    IF s # <<>> /\ IsSpace(s[Len(s)]) THEN TrimRight(SubSeq(s, 1, Len(s) - 1)) ELSE s

\* strings.TrimSpace
TrimSpace(s) == TrimRight(TrimLeft(s))

\* The Host field of a request nobody assigned: the host is taken from the URL.
NoHost == <<>>

getCollectionByOriginID(collections, originID) ==
    LET collection == MapGet(collections, originID)
    IN  IF collection = ""
        THEN [collection |-> "", err |-> ErrCollectionNotFound]
        ELSE [collection |-> collection, err |-> NoError]

\* The zero NativeMessage.
ZeroMessage == [body |-> EmptyMap, headers |-> EmptyMap]

NewNativeMessage_noReference(contentBody, timestamp, transactionID) ==
    LET u == Unmarshal(contentBody)
    IN  IF u.err # NoError
        THEN [msg |-> ZeroMessage, err |-> u.err]
        ELSE [msg |-> [body |-> MapSet(u.body, "lastModified", timestamp),
                       headers |-> MapSet(EmptyMap, transactionIDHeader, transactionID)],
              err |-> NoError]

NewNativeMessage(contentBody, timestamp, transactionID) ==
    LET u == Unmarshal(contentBody)
    IN  IF u.err # NoError
        THEN [msg |-> ZeroMessage, err |-> u.err]
        ELSE [msg |-> [body |-> MapSet(MapSet(u.body, "lastModified", timestamp),
                                       "publishReference", transactionID),
                       headers |-> MapSet(EmptyMap, transactionIDHeader, transactionID)],
              err |-> NoError]

AddHashHeader(m, hash) ==
    [m EXCEPT !.headers = MapSet(m.headers, nativeHashHeader, hash)]

transactionID(m) == MapGet(m.headers, transactionIDHeader)

\* request.Header.Set(header, value) for every header of the message, in any
\* order: the keys of a map are distinct, so the order does not show.
SetAll(header, headers) ==
    [k \in DOMAIN header \cup DOMAIN headers |->
        IF k \in DOMAIN headers THEN headers[k] ELSE header[k]]

BuildRequest_noMessageHeaders(hostHeader0, m, collection, contentUUID) ==
    [method |-> "PUT",
     url |-> <<address, "/", collection, "/", contentUUID>>,
     header |-> MapSet(EmptyMap, contentTypeHeader, "application/json"),
     host |-> IF Len(TrimSpace(hostHeader0)) > 0 THEN hostHeader0 ELSE NoHost,
     body |-> Marshal(m.body)]

\* The request WriteToCollection builds: URL, headers, host override.
BuildRequest(hostHeader0, m, collection, contentUUID) ==
    [method |-> "PUT",
     url |-> <<address, "/", collection, "/", contentUUID>>,
     header |-> SetAll(MapSet(EmptyMap, contentTypeHeader, "application/json"),
                       m.headers),
     host |-> IF Len(TrimSpace(hostHeader0)) > 0 THEN hostHeader0 ELSE NoHost,
     body |-> Marshal(m.body)]

properClose_noClose(net) == <<IF net.copyOk THEN "CopyToEOF" ELSE "CopyFailed">>

\* The calls properClose makes on the response body: io.Copy to Discard, to
\* the end of the body or to a read error, and Close whatever io.Copy said.
properClose(net) == <<IF net.copyOk THEN "CopyToEOF" ELSE "CopyFailed", "Close">>

isNot2XXStatusCode_open300(statusCode) == statusCode < 200 \/ statusCode > 300

isNot2XXStatusCode(statusCode) == statusCode < 200 \/ statusCode >= 300

\* An Error entry of the log, with its responseStatusCode field (0: none).
LogError(text, status) == [msg |-> text, responseStatusCode |-> status]

WriteToCollection_ignoreParserError(hostHeader0, m, collection, parsed, net) ==
    LET request == BuildRequest(hostHeader0, m, collection, parsed.uuid)
    IN  IF net.kind = "error"
        THEN [ret |-> net.err, wire |-> <<request>>, bodyOps |-> <<>>,
              log |-> <<LogError("Error calling native writer. Ignoring message.", 0)>>]
        ELSE IF isNot2XXStatusCode(net.status)
        THEN [ret |-> ErrNon2XX, wire |-> <<request>>, bodyOps |-> properClose(net),
              log |-> <<LogError("Native writer returned non-200 code", net.status)>>]
        ELSE [ret |-> NoError, wire |-> <<request>>, bodyOps |-> properClose(net),
              log |-> <<>>]

WriteToCollection_retry(hostHeader0, m, collection, parsed, net) ==
    IF parsed.err # NoError
    THEN [ret |-> parsed.err, wire |-> <<>>, bodyOps |-> <<>>,
          log |-> <<LogError("Error extracting uuid. Ignoring message.", 0)>>]
    ELSE
    LET request == BuildRequest(hostHeader0, m, collection, parsed.uuid)
    IN  IF net.kind = "error"
        THEN [ret |-> net.err, wire |-> <<request, request>>, bodyOps |-> <<>>,
              log |-> <<LogError("Error calling native writer. Ignoring message.", 0)>>]
        ELSE IF isNot2XXStatusCode(net.status)
        THEN [ret |-> ErrNon2XX, wire |-> <<request, request>>,
              bodyOps |-> properClose(net) \o properClose(net),
              log |-> <<LogError("Native writer returned non-200 code", net.status)>>]
        ELSE [ret |-> NoError, wire |-> <<request>>, bodyOps |-> properClose(net),
              log |-> <<>>]

\* One call of WriteToCollection, given what the body parser and the HTTP
\* client answer: the error returned, the requests handed to httpClient.Do,
\* the calls made on the response body, and the Error entries logged.
WriteToCollection(hostHeader0, m, collection, parsed, net) ==
    IF parsed.err # NoError
    THEN [ret |-> parsed.err, wire |-> <<>>, bodyOps |-> <<>>,
          log |-> <<LogError("Error extracting uuid. Ignoring message.", 0)>>]
    ELSE
    LET request == BuildRequest(hostHeader0, m, collection, parsed.uuid)
    IN  IF net.kind = "error"
        THEN [ret |-> net.err, wire |-> <<request>>, bodyOps |-> <<>>,
              log |-> <<LogError("Error calling native writer. Ignoring message.", 0)>>]
        ELSE IF isNot2XXStatusCode(net.status)
        THEN [ret |-> ErrNon2XX, wire |-> <<request>>, bodyOps |-> properClose(net),
              log |-> <<LogError("Native writer returned non-200 code", net.status)>>]
        ELSE [ret |-> NoError, wire |-> <<request>>, bodyOps |-> properClose(net),
              log |-> <<>>]

\* One call of ConnectivityCheck: the message and error returned and the
\* request handed to httpClient.Do.  The response body is never closed.
ConnectivityCheck(hostHeader0, net) ==
    LET req == [method |-> "GET", url |-> <<address, GTGPath>>, header |-> EmptyMap,
                host |-> hostHeader0, body |-> <<>>]
    IN  IF net.kind = "error"
        THEN [text |-> "Native writer is not good to go.", ret |-> net.err,
              wire |-> <<req>>, bodyOps |-> <<>>]
        ELSE IF net.status # StatusOK
        THEN [text |-> "Native writer is not good to go.",
              ret |-> Errorf("GTG HTTP status code is %v", net.status),
              wire |-> <<req>>, bodyOps |-> <<>>]
        ELSE [text |-> "Native writer is good to go.", ret |-> NoError,
              wire |-> <<req>>, bodyOps |-> <<>>]

\* ------------------------------------------------------------------------
\* package queue: the publication event
\* ------------------------------------------------------------------------
contentBody_parseFirst(pe) ==
    LET u == Unmarshal(pe.body)
    IN  IF u.err # NoError
        THEN [body |-> EmptyMap, err |-> u.err]
        ELSE IF timestampHeader \notin DOMAIN pe.headers
        THEN [body |-> EmptyMap, err |-> ErrNoTimestamp]
        ELSE [body |-> MapSet(MapSet(u.body, "lastModified", pe.headers[timestampHeader]),
                              "publishReference", MapGet(pe.headers, transactionIDHeader)),
              err |-> NoError]

\* publicationEvent.contentBody: the timestamp header is required whatever
\* the body is; then the body is parsed and the two audit fields are set.
contentBody(pe) ==
    IF timestampHeader \notin DOMAIN pe.headers
    THEN [body |-> EmptyMap, err |-> ErrNoTimestamp]
    ELSE LET u == Unmarshal(pe.body)
         IN  IF u.err # NoError
             THEN [body |-> EmptyMap, err |-> u.err]
             ELSE [body |-> MapSet(MapSet(u.body, "lastModified",
                                          pe.headers[timestampHeader]),
                                   "publishReference",
                                   MapGet(pe.headers, transactionIDHeader)),
                   err |-> NoError]

\* The content hash of an enriched body.
Hash(body) == IF "foo" \in DOMAIN body THEN "hash_1" ELSE "hash_0"

\* One message through the pipeline: resolve the collection, enrich the body,
\* attach the hash, write.  The first stage to fail ends the message.
HandleMessage(hostHeader0, collections0, item) ==
    LET pe == item.event
        c == getCollectionByOriginID(collections0, MapGet(pe.headers, originSystemIDHeader))
        b == contentBody(pe)
        m == AddHashHeader(
                 [body |-> b.body,
                  headers |-> MapSet(EmptyMap, transactionIDHeader,
                                     MapGet(pe.headers, transactionIDHeader))],
                 Hash(b.body))
        w == WriteToCollection(hostHeader0, m, c.collection, item.parsed, item.net)
    IN  IF c.err # NoError
        THEN [state |-> "Failed", stage |-> "CollectionResolved", cause |-> c.err, puts |-> 0]
        ELSE IF b.err # NoError
        THEN [state |-> "Failed", stage |-> "BodyEnriched", cause |-> b.err, puts |-> 0]
        ELSE IF w.ret # NoError
        THEN [state |-> "Failed", stage |-> "Written", cause |-> w.ret, puts |-> Len(w.wire)]
        ELSE [state |-> "Written", stage |-> "Written", cause |-> NoError, puts |-> Len(w.wire)]

\* The handler of a batch: every message of it, in order.
Handler(hostHeader0, collections0, msgs) ==
    [i \in 1..Len(msgs) |-> HandleMessage(hostHeader0, collections0, msgs[i])]

\* ------------------------------------------------------------------------
\* package consumer: the batched processor
\* ------------------------------------------------------------------------
consume_onlyFirst(msgs) == IF Len(msgs) > 0 THEN <<SubSeq(msgs, 1, 1)>> ELSE <<>>

\* BatchedMessageProcessor.consume: the arguments of the calls of b.handler.
consume(msgs) == IF Len(msgs) > 0 THEN <<msgs>> ELSE <<>>

\* ------------------------------------------------------------------------
\* State
\* ------------------------------------------------------------------------
VARIABLES
    hostHeader,     \* nativeWriter.hostHeader
    collections,    \* nativeWriter.collections.collectionsOriginIdsMap
    msg,            \* the NativeMessage the caller holds
    origin,         \* what the caller built msg from
    sentHost,       \* per method, the Host of the last request handed to Do
    openBodies,     \* the response bodies of writes received and not closed
    last,           \* the last operation, what it was given and what it did
    lookups,        \* per origin id, the results GetCollectionByOriginID gave
    event,          \* a publication event: headers and raw body
    enriched,       \* the results of enriching the body of event
    batch,          \* the messages handed to the batched processor
    outcomes,       \* the terminal state of every message the handler took
    handlerCalls    \* how often the batched processor called its handler

vars == <<hostHeader, collections, msg, origin, sentHost, openBodies, last,
          lookups, event, enriched, batch, outcomes, handlerCalls>>

writerVars == <<msg, origin, sentHost, openBodies>>
eventVars == <<event, enriched>>
batchVars == <<batch, outcomes, handlerCalls>>

NotBuilt == [built |-> FALSE, raw |-> [kind |-> "null", members |-> <<>>],
             timestamp |-> "", tid |-> "", hash |-> <<>>]

DefaultMapping == [k \in {"methode"} |-> "content"]
DefaultHost == <<>>

DefaultEvent == [headers |-> EmptyMap, body |-> [kind |-> "null", members |-> <<>>]]

\* The bodies the writer is fed.
WriterBodies ==
    {[kind |-> "object", members |-> <<<<"foo", "bar">>>>],
     [kind |-> "object", members |-> <<>>],
     [kind |-> "garbage", members |-> <<>>]}

WriterCollections == {"content", "video"}

Idle == [op |-> "none"]

InitWriter ==
    /\ msg = ZeroMessage
    /\ origin = NotBuilt
    /\ sentHost = [m \in {"PUT", "GET"} |-> {}]
    /\ openBodies = 0
    /\ last = Idle

InitEvent ==
    /\ event = DefaultEvent
    /\ enriched = [f \in {"contentBody", "NewNativeMessage"} |-> {}]

InitBatch ==
    /\ batch = <<>>
    /\ outcomes = <<>>
    /\ handlerCalls = 0

Init ==
    /\ hostHeader \in HostHeaders
    /\ collections = DefaultMapping
    /\ lookups = [o \in OriginIDs |-> {}]
    /\ InitWriter
    /\ InitEvent
    /\ InitBatch

\* ------------------------------------------------------------------------
\* The writer's operations
\* ------------------------------------------------------------------------
Opened(r, net) == IF net.kind = "response" THEN Len(r.wire) ELSE 0
Closed(r) == Cardinality({i \in 1..Len(r.bodyOps) : r.bodyOps[i] = "Close"})

DoNewNativeMessage ==
    \E text \in WriterBodies, timestamp \in Timestamps, tid \in TransactionIDs :
        LET r == NewNativeMessage(text, timestamp, tid)
        IN  /\ msg' = r.msg
            /\ origin' = IF r.err = NoError
                         THEN [built |-> TRUE, raw |-> text,
                               timestamp |-> timestamp, tid |-> tid, hash |-> <<>>]
                         ELSE NotBuilt
            /\ last' = [op |-> "NewNativeMessage", ret |-> r.err]
            /\ UNCHANGED <<hostHeader, collections, sentHost, openBodies, lookups>>
            /\ UNCHANGED eventVars
            /\ UNCHANGED batchVars

DoAddHashHeader ==
    /\ origin.built
    /\ \E hash \in Hashes :
        /\ msg' = AddHashHeader(msg, hash)
        /\ origin' = [origin EXCEPT !.hash = <<hash>>]
        /\ last' = [op |-> "AddHashHeader"]
    /\ UNCHANGED <<hostHeader, collections, sentHost, openBodies, lookups>>
    /\ UNCHANGED eventVars
    /\ UNCHANGED batchVars

DoWriteToCollection ==
    /\ openBodies < MaxOpen
    /\ \E collection \in WriterCollections, parsed \in ParserOutcomes, net \in NetOutcomes :
        LET r == WriteToCollection(hostHeader, msg, collection, parsed, net)
        IN  /\ last' = [op |-> "WriteToCollection", collection |-> collection,
                        parsed |-> parsed, net |-> net, ret |-> r.ret,
                        wire |-> r.wire, bodyOps |-> r.bodyOps, log |-> r.log]
            /\ sentHost' = IF r.wire = <<>> THEN sentHost
                           ELSE [sentHost EXCEPT !["PUT"] = {r.wire[Len(r.wire)].host}]
            /\ openBodies' = openBodies + Opened(r, net) - Closed(r)
    /\ UNCHANGED <<hostHeader, collections, msg, origin, lookups>>
    /\ UNCHANGED eventVars
    /\ UNCHANGED batchVars

DoConnectivityCheck ==
    /\ \E net \in {n \in NetOutcomes : n.copyOk \/ n.kind = "error"} :
        LET r == ConnectivityCheck(hostHeader, net)
        IN  /\ last' = [op |-> "ConnectivityCheck", net |-> net, text |-> r.text,
                        ret |-> r.ret, wire |-> r.wire, bodyOps |-> r.bodyOps]
            /\ sentHost' = [sentHost EXCEPT !["GET"] = {r.wire[1].host}]
    /\ UNCHANGED <<hostHeader, collections, msg, origin, openBodies, lookups>>
    /\ UNCHANGED eventVars
    /\ UNCHANGED batchVars

Next ==
    \/ DoNewNativeMessage
    \/ DoAddHashHeader
    \/ DoWriteToCollection
    \/ DoConnectivityCheck

Spec == Init /\ [][Next]_vars

\* ------------------------------------------------------------------------
\* Collection lookup, interleaved with writes
\* ------------------------------------------------------------------------
DoGetCollectionByOriginID ==
    /\ \E originID \in OriginIDs :
        LET r == getCollectionByOriginID(collections, originID)
        IN  /\ last' = [op |-> "GetCollectionByOriginID", originID |-> originID,
                        collection |-> r.collection, ret |-> r.err]
            /\ lookups' = [lookups EXCEPT ![originID] = @ \cup {r}]
    /\ UNCHANGED <<hostHeader, collections>>
    /\ UNCHANGED writerVars
    /\ UNCHANGED eventVars
    /\ UNCHANGED batchVars

InitLookup ==
    /\ hostHeader = DefaultHost
    /\ collections \in Mappings
    /\ lookups = [o \in OriginIDs |-> {}]
    /\ InitWriter
    /\ InitEvent
    /\ InitBatch

NextLookup ==
    \/ DoGetCollectionByOriginID
    \/ DoWriteToCollection

SpecLookup == InitLookup /\ [][NextLookup]_vars

\* ------------------------------------------------------------------------
\* Body enrichment of one publication event
\* ------------------------------------------------------------------------
EventHeaders ==
    {EmptyMap}
    \cup [{timestampHeader} -> Timestamps]
    \cup [{transactionIDHeader} -> TransactionIDs]
    \cup [{timestampHeader, transactionIDHeader} -> Timestamps \cup TransactionIDs]

Events ==
    [headers : {h \in EventHeaders :
                    /\ timestampHeader \in DOMAIN h => h[timestampHeader] \in Timestamps
                    /\ transactionIDHeader \in DOMAIN h
                           => h[transactionIDHeader] \in TransactionIDs},
     body : RawBodies]

DoContentBody ==
    /\ enriched' = [enriched EXCEPT !["contentBody"] = @ \cup {contentBody(event)}]
    /\ last' = [op |-> "contentBody"]
    /\ UNCHANGED <<hostHeader, collections, lookups, event>>
    /\ UNCHANGED writerVars
    /\ UNCHANGED batchVars

DoEventMessage ==
    /\ LET r == NewNativeMessage(event.body, MapGet(event.headers, timestampHeader),
                                 MapGet(event.headers, transactionIDHeader))
       IN  enriched' = [enriched EXCEPT !["NewNativeMessage"] =
                            @ \cup {[body |-> r.msg.body, err |-> r.err]}]
    /\ last' = [op |-> "NewNativeMessage"]
    /\ UNCHANGED <<hostHeader, collections, lookups, event>>
    /\ UNCHANGED writerVars
    /\ UNCHANGED batchVars

InitEnrich ==
    /\ hostHeader = DefaultHost
    /\ collections = DefaultMapping
    /\ lookups = [o \in OriginIDs |-> {}]
    /\ InitWriter
    /\ event \in Events
    /\ enriched = [f \in {"contentBody", "NewNativeMessage"} |-> {}]
    /\ InitBatch

NextEnrich ==
    \/ DoContentBody
    \/ DoEventMessage

SpecEnrich == InitEnrich /\ [][NextEnrich]_vars

\* ------------------------------------------------------------------------
\* One batch through the batched processor
\* ------------------------------------------------------------------------
BatchHeaders ==
    {[h \in {transactionIDHeader, originSystemIDHeader, timestampHeader} |->
         CASE h = transactionIDHeader -> "tid_test"
           [] h = originSystemIDHeader -> o
           [] OTHER -> "2017-02-16T12:56:16Z"] : o \in {"methode", "wordpress"}}
    \cup {[h \in {transactionIDHeader, originSystemIDHeader} |->
             IF h = transactionIDHeader THEN "tid_test" ELSE "methode"]}

BatchEvents ==
    [headers : BatchHeaders, body : {[kind |-> "object", members |-> <<<<"foo", "bar">>>>]}]
    \cup {[headers |-> [h \in {transactionIDHeader, originSystemIDHeader, timestampHeader} |->
                           CASE h = transactionIDHeader -> "tid_test"
                             [] h = originSystemIDHeader -> "methode"
                             [] OTHER -> "2017-02-16T12:56:16Z"],
           body |-> [kind |-> "garbage", members |-> <<>>]]}

BatchAnswers ==
    {a \in [parsed : ParserOutcomes, net : NetOutcomes] :
        /\ a.parsed.err # ErrParserEmpty
        /\ a.net.err # ErrTimeout
        /\ a.net.kind = "response" => a.net.copyOk /\ a.net.status \in {200, 503}
        /\ a.parsed.err # NoError => a.net.kind = "error"}

BatchItems ==
    {[event |-> e, parsed |-> a.parsed, net |-> a.net] : e \in BatchEvents, a \in BatchAnswers}

RECURSIVE Flatten(_)
Flatten(ss) == IF ss = <<>> THEN <<>> ELSE Head(ss) \o Flatten(Tail(ss))

DoConsume ==
    /\ last = Idle
    /\ LET calls == consume(batch)
       IN  /\ handlerCalls' = handlerCalls + Len(calls)
           /\ outcomes' = outcomes \o
                  Flatten([i \in 1..Len(calls) |-> Handler(hostHeader, collections, calls[i])])
    /\ last' = [op |-> "consume"]
    /\ UNCHANGED <<hostHeader, collections, lookups, batch>>
    /\ UNCHANGED writerVars
    /\ UNCHANGED eventVars

InitConsume ==
    /\ hostHeader = DefaultHost
    /\ collections = DefaultMapping
    /\ lookups = [o \in OriginIDs |-> {}]
    /\ InitWriter
    /\ InitEvent
    /\ batch \in SeqsUpTo(BatchItems, MaxBatch)
    /\ outcomes = <<>>
    /\ handlerCalls = 0

NextConsume == DoConsume

SpecConsume == InitConsume /\ [][NextConsume]_vars

\* ------------------------------------------------------------------------
\* Properties
\* ------------------------------------------------------------------------
IsWrite == last.op = "WriteToCollection"
GotResponse == IsWrite /\ last.parsed.err = NoError /\ last.net.kind = "response"
Is2XX(status) == status >= 200 /\ status < 300

\* C1: whenever WriteToCollection received a response, with a 2xx status or
\* not, it has run io.Copy on the body (to its end, or to a read error) and
\* then closed it before returning; no body of a write is ever left open.
ResponseBodyAlwaysReleased ==
    /\ openBodies = 0
    /\ GotResponse =>
          /\ Len(last.bodyOps) = 2
          /\ last.bodyOps[1] = (IF last.net.copyOk THEN "CopyToEOF" ELSE "CopyFailed")
          /\ last.bodyOps[2] = "Close"

FailedWriteReleasedBody ==
    /\ GotResponse
    /\ ~Is2XX(last.net.status)
    /\ last.ret # NoError
    /\ last.bodyOps = <<"CopyToEOF", "Close">>
    /\ openBodies = 0

ParserFailureStopsWrite ==
    IsWrite =>
        /\ last.parsed.err # NoError =>
              /\ last.ret = last.parsed.err
              /\ last.wire = <<>>
              /\ last.bodyOps = <<>>
        /\ last.wire # <<>> => last.parsed.err = NoError

ParserFailedNoRequest ==
    /\ IsWrite
    /\ last.parsed.err = ErrParserEmpty
    /\ last.ret = ErrParserEmpty
    /\ last.wire = <<>>

\* C4: the request of a write of a message built by NewNativeMessage with
\* transaction id T, after any AddHashHeader calls the last of which gave H,
\* to collection C with content id U, is a PUT to address/C/U that carries
\* Content-Type: application/json, every header of the message, X-Request-Id
\* equal to T and, if a hash was added, X-Native-Hash equal to H.
PutCarriesMessageHeaders ==
    (IsWrite /\ origin.built /\ last.wire # <<>>) =>
        LET request == last.wire[1]
        IN  /\ request.method = "PUT"
            /\ request.url = <<address, "/", last.collection, "/", last.parsed.uuid>>
            /\ contentTypeHeader \in DOMAIN request.header
            /\ request.header[contentTypeHeader] = "application/json"
            /\ \A h \in DOMAIN msg.headers :
                  h \in DOMAIN request.header /\ request.header[h] = msg.headers[h]
            /\ transactionIDHeader \in DOMAIN request.header
            /\ request.header[transactionIDHeader] = origin.tid
            /\ origin.hash # <<>> =>
                  /\ nativeHashHeader \in DOMAIN request.header
                  /\ request.header[nativeHashHeader] = origin.hash[1]

PutWithHashSent ==
    /\ IsWrite
    /\ origin.built
    /\ origin.hash = <<"hash_1">>
    /\ origin.tid = "tid_test"
    /\ last.collection = "content"
    /\ Len(last.wire) = 1
    /\ last.wire[1].url = <<address, "/", "content", "/", "abc-123">>

\* C5: GetCollectionByOriginID gives the same result every time it is asked
\* about an origin id; it gives a collection name only for a key of the
\* mapping, and the not-found error and no name for an unmapped or empty id.
ResolveIsPureLookup ==
    \A o \in OriginIDs :
        /\ Cardinality(lookups[o]) <= 1
        /\ \A r \in lookups[o] :
              /\ r.err = NoError =>
                    o \in DOMAIN collections /\ r.collection = collections[o]
              /\ (o \notin DOMAIN collections \/ o = "") =>
                    r.err = ErrCollectionNotFound /\ r.collection = ""

\* C6 (as the code has it): for an event whose body is a JSON object and that
\* has a timestamp header, enriching the body gives the same result every
\* time; the result has the keys of the original object and lastModified and
\* publishReference, lastModified is the timestamp header, publishReference
\* the transaction id, and every other field has its original value (an
\* original lastModified or publishReference field is overwritten).
EnrichmentAddsAuditFields ==
    (event.body.kind = "object" /\ MapGet(event.headers, timestampHeader) # "") =>
        LET original == Unmarshal(event.body).body
        IN  \A f \in DOMAIN enriched :
                /\ Cardinality(enriched[f]) <= 1
                /\ \A r \in enriched[f] :
                      /\ r.err = NoError
                      /\ DOMAIN r.body =
                            DOMAIN original \cup {"lastModified", "publishReference"}
                      /\ r.body["lastModified"] = event.headers[timestampHeader]
                      /\ r.body["publishReference"] =
                            MapGet(event.headers, transactionIDHeader)
                      /\ \A k \in DOMAIN original \ {"lastModified", "publishReference"} :
                            r.body[k] = original[k]

EnrichedTwoFieldObject ==
    /\ event.body = [kind |-> "object",
                     members |-> <<<<"foo", "bar">>, <<"lastModified", "old">>>>]
    /\ event.headers = [h \in {timestampHeader, transactionIDHeader} |->
                           IF h = timestampHeader THEN "2017-02-16T12:56:16Z"
                           ELSE "tid_test"]
    /\ enriched["contentBody"] # {}
    /\ enriched["NewNativeMessage"] # {}

\* C6 (as claimed), for the enrichment NewNativeMessage does: the same, with
\* every original field, lastModified and publishReference included,
\* keeping its original value.
EnrichmentKeepsEveryOriginalField ==
    (event.body.kind = "object" /\ MapGet(event.headers, timestampHeader) # "") =>
        LET original == Unmarshal(event.body).body
        IN  /\ Cardinality(enriched["NewNativeMessage"]) <= 1
            /\ \A r \in enriched["NewNativeMessage"] :
                  /\ r.err = NoError
                  /\ DOMAIN r.body =
                        DOMAIN original \cup {"lastModified", "publishReference"}
                  /\ r.body["lastModified"] = event.headers[timestampHeader]
                  /\ r.body["publishReference"] =
                        MapGet(event.headers, transactionIDHeader)
                  /\ \A k \in DOMAIN original : r.body[k] = original[k]

\* C7: contentBody of an event without the Message-Timestamp header fails
\* with the missing-timestamp error and gives no body, whether the body of
\* the event is a JSON object or not JSON at all.
MissingTimestampFails ==
    timestampHeader \notin DOMAIN event.headers =>
        \A r \in enriched["contentBody"] :
            r.err = ErrNoTimestamp /\ r.body = EmptyMap

BadBodyWithoutTimestamp ==
    /\ timestampHeader \notin DOMAIN event.headers
    /\ event.body.kind = "garbage"
    /\ enriched["contentBody"] = {[body |-> EmptyMap, err |-> ErrNoTimestamp]}

\* The terminal state the pipeline owes one message, from that message alone.
Terminal(item) ==
    LET h == item.event.headers
        o == MapGet(h, originSystemIDHeader)
    IN  IF o \notin DOMAIN collections \/ collections[o] = ""
        THEN <<"Failed", "CollectionResolved">>
        ELSE IF timestampHeader \notin DOMAIN h \/ item.event.body.kind \notin {"object", "null"}
        THEN <<"Failed", "BodyEnriched">>
        ELSE IF item.parsed.err # NoError \/ item.net.kind = "error" \/ ~Is2XX(item.net.status)
        THEN <<"Failed", "Written">>
        ELSE <<"Written", "Written">>

SameHostOverride ==
    \A p \in sentHost["PUT"], g \in sentHost["GET"] :
        /\ p # NoHost <=> g # NoHost
        /\ p = g

\* C10: one call of WriteToCollection hands at most one request to the HTTP
\* client; after a transport failure or a status outside [200,300) it has
\* handed over exactly one and returns the failure.
SingleAttempt ==
    IsWrite =>
        /\ Len(last.wire) <= 1
        /\ (last.parsed.err = NoError /\ last.ret # NoError) => Len(last.wire) = 1

ServerErrorNotRetried ==
    /\ IsWrite
    /\ last.net.kind = "response"
    /\ last.net.status = 503
    /\ last.ret = ErrNon2XX
    /\ Len(last.wire) = 1

====
